---- MODULE Spec2Model ----
(***************************************************************************)
(* Model of the image reshaping methods (ImageReshape.py: Tile, roi,       *)
(* samesize, scale) and of the OpenCV annotation functions                 *)
(* (base/graphics.py: draw_box, draw_labelbox, draw_text, draw_point).     *)
(*                                                                         *)
(* The functions keep no state between calls, so a behaviour is one call:  *)
(* from the ready state a caller invokes one function with its arguments.  *)
(* The state records the call (op, arg), its outcome (ret: a normal return *)
(* with its value, or the exception raised), and the calls it made on the  *)
(* drawing library, in order (cvcalls).  Tile runs step by step over its   *)
(* own locals (tiles, canvas, u, v, c), because it consumes the caller's   *)
(* list while it pastes.                                                   *)
(*                                                                         *)
(* Coordinates that Python holds as floats after a division by two are     *)
(* kept as twice their value, so that int() and round() are computed       *)
(* exactly; ratios are kept as <<numerator, denominator>>.                 *)
(***************************************************************************)
EXTENDS Integers, Sequences, FiniteSets, TLC

\* ---------------------------------------------------------------- bounds
\* coordinates range over -MaxC .. MaxC
MaxC == 2
\* box widths and heights range over 0 .. MaxWH
MaxWH == 2
\* image widths and heights range over 1 .. MaxDim
MaxDim == 3
\* at most MaxTiles tiles are handed to Tile
MaxTiles == 3
\* Tile is called with 1 .. MaxCols columns
MaxCols == 3
\* Tile is called with a separation of 0 .. MaxSep pixels
MaxSep == 1
\* draw_point is handed at most MaxPts points
MaxPts == 2

VARIABLES pc, op, arg, ret, cvcalls, tiles, canvas, u, v, c

vars == <<pc, op, arg, ret, cvcalls, tiles, canvas, u, v, c>>

\* ------------------------------------------------------- Python helpers
Coord == (0 - MaxC)..MaxC
Pt == Coord \X Coord
WH == (0..MaxWH) \X (0..MaxWH)

\* a normal return
Ok(value, calls) ==
  [status |-> "ok", exc |-> "", msg |-> "", value |-> value, calls |-> calls]

\* an exception leaving the function
Raise(exc, msg, calls) ==
  [status |-> "raise", exc |-> exc, msg |-> msg, value |-> <<>>, calls |-> calls]

\* int(x) of the float whose double is t: truncation toward zero
IntOfHalves(t) == IF t >= 0 THEN t \div 2 ELSE 0 - ((0 - t) \div 2)

\* round(a / b) for a >= 0, b > 0: Python rounds halves to the even neighbour
RoundHalfEven(a, b) ==
  LET q == a \div b
      r == a % b
  IN IF 2 * r < b THEN q
     ELSE IF 2 * r > b THEN q + 1
     ELSE IF q % 2 = 0 THEN q ELSE q + 1

Dbl(p) == <<2 * p[1], 2 * p[2]>>

Reversed(s) == [i \in 1..Len(s) |-> s[Len(s) + 1 - i]]

\* ------------------------------------------------------------- colours
NoColor == [kind |-> "none", val |-> <<>>]
IntColor == [kind |-> "int", val |-> <<128>>]
StrColor == [kind |-> "str", val |-> <<"red">>]
SeqColor == [kind |-> "seq", val |-> <<255, 128, 0>>]
Colors == {NoColor, IntColor, StrColor, SeqColor}

\* color_bgr(name): the BGR triple of a named colour
color_bgr(name) ==
  IF name = <<"red">> THEN <<0, 0, 255>>
  ELSE IF name = <<"white">> THEN <<255, 255, 255>>
  ELSE <<0, 0, 0>>

GreyMsg == "can't draw color into a greyscale image"

\* ------------------------------------------------------------ draw_box
\* row j instead of column j: bbox[j, :] for bbox[:, j]
Column_row(bbox, j) == <<bbox[j + 1][1], bbox[j + 1][2]>>

\* column j (0-based) of the 2x2 matrix [xmin, xmax; ymin, ymax]
Column(bbox, j) == <<bbox[1][j + 1], bbox[2][j + 1]>>

\* the if/elif chain of draw_box: the corners, doubled, and whether each is
\* bound to something other than None afterwards
draw_box_corners(a) ==
  LET g == a.given
      isNone(p) == p \notin g
      w == a.wh[1]
      h == a.wh[2]
  IN IF ~isNone("bbox") THEN
       [bl |-> Dbl(Column(a.bbox, 0)), tr |-> Dbl(Column(a.bbox, 1)),
        blset |-> TRUE, trset |-> TRUE]
     ELSE IF ~isNone("bl") /\ isNone("tl") /\ isNone("tr") /\ ~isNone("wh")
             /\ isNone("centre") THEN
       [bl |-> Dbl(a.bl), tr |-> Dbl(<<a.bl[1] + w, a.bl[2] + h>>),
        blset |-> TRUE, trset |-> TRUE]
     ELSE IF ~isNone("bl") /\ isNone("tl") /\ ~isNone("tr") /\ isNone("wh")
             /\ isNone("centre") THEN
       [bl |-> Dbl(a.bl), tr |-> Dbl(a.tr), blset |-> TRUE, trset |-> TRUE]
     ELSE IF isNone("bl") /\ isNone("tl") /\ isNone("tr") /\ ~isNone("wh")
             /\ ~isNone("centre") THEN
       [bl |-> <<2 * a.centre[1] - w, 2 * a.centre[2] - h>>,
        tr |-> <<2 * a.centre[1] + w, 2 * a.centre[2] + h>>,
        blset |-> TRUE, trset |-> TRUE]
     ELSE IF isNone("bl") /\ isNone("tl") /\ ~isNone("tr") /\ ~isNone("wh")
             /\ isNone("centre") THEN
       [bl |-> Dbl(<<a.tr[1] - w, a.tr[2] - h>>), tr |-> Dbl(a.tr),
        blset |-> TRUE, trset |-> TRUE]
     ELSE IF isNone("bl") /\ ~isNone("tl") /\ isNone("tr") /\ ~isNone("wh")
             /\ isNone("centre") THEN
       [bl |-> Dbl(<<a.tl[1], a.tl[2] - h>>), tr |-> Dbl(<<a.tl[1] + w, a.tl[2]>>),
        blset |-> TRUE, trset |-> TRUE]
     ELSE
       [bl |-> Dbl(a.bl), tr |-> Dbl(a.tr),
        blset |-> ~isNone("bl"), trset |-> ~isNone("tr")]

\* tuple([int(x) for x in p]) of a doubled corner
IntCorner(p2) == <<IntOfHalves(p2[1]), IntOfHalves(p2[2])>>

\* draw_box(image, **a, color, fillcolor, thickness) on an image of ndim
\* dimensions
draw_box(ndim, a, color, fillcolor, thickness) ==
  IF color.kind # "int" /\ ndim = 2 THEN Raise("TypeError", GreyMsg, <<>>)
  ELSE
    LET cn == draw_box_corners(a)
        filled == fillcolor.kind # "none"
        color1 == IF filled THEN fillcolor ELSE color
        thick1 == IF filled THEN 0 - 1 ELSE thickness
        color2 == IF color1.kind = "str"
                  THEN [kind |-> "seq", val |-> color_bgr(color1.val)]
                  ELSE color1
    IN IF color2.kind = "int" THEN
         Raise("TypeError", "object of type 'int' has no len()", <<>>)
       ELSE
         LET color3 == IF color2.kind = "seq" /\ Len(color2.val) = 3
                       THEN [kind |-> "seq", val |-> Reversed(color2.val)]
                       ELSE color2
         IN IF ~cn.blset \/ ~cn.trset THEN
              Raise("TypeError", "'NoneType' object is not iterable", <<>>)
            ELSE
              LET bl == IntCorner(cn.bl)
                  tr == IntCorner(cn.tr)
              IN Ok(<<bl, tr>>,
                    << [fn |-> "rectangle", pt1 |-> bl, pt2 |-> tr,
                        color |-> color3, thickness |-> thick1] >>)

\* the box arguments of a call: the parameters in `given` are passed, the
\* others keep their default None
BoxArg(given, bbox, bl, tl, br, tr, wh, centre) ==
  [given |-> given, bbox |-> bbox, bl |-> bl, tl |-> tl, br |-> br, tr |-> tr,
   wh |-> wh, centre |-> centre]

NoPt == <<0, 0>>

\* the combinations of box parameters callers pass
BoxArgSets ==
  { {"bbox"}, {"bl", "wh"}, {"bl", "tr"}, {"centre", "wh"}, {"tr", "wh"},
    {"tl", "wh"}, {}, {"bl"}, {"tr"}, {"wh"}, {"br", "wh"}, {"tl", "tr"},
    {"bl", "centre"} }

PtOr(g, name) == IF name \in g THEN Pt ELSE {NoPt}

BoxCalls ==
  UNION { { BoxArg(g, <<<<p[1], q[1]>>, <<p[2], q[2]>>>>, bl, tl, br, tr, wh, ce) :
              p \in (IF "bbox" \in g THEN Pt ELSE {NoPt}),
              q \in (IF "bbox" \in g THEN Pt ELSE {NoPt}),
              bl \in PtOr(g, "bl"), tl \in PtOr(g, "tl"), br \in PtOr(g, "br"),
              tr \in PtOr(g, "tr"),
              wh \in (IF "wh" \in g THEN WH ELSE {NoPt}),
              ce \in PtOr(g, "centre") } : g \in BoxArgSets }

NoCanvas ==
  [made |-> FALSE, width |-> 0, height |-> 0, dtype |-> "", iscolor |-> FALSE,
   pastes |-> <<>>]

Ready == pc = "ready"

ResetTile ==
  /\ tiles' = <<>>
  /\ canvas' = NoCanvas
  /\ u' = 0
  /\ v' = 0
  /\ c' = 0

Finish(name, a, r) ==
  /\ pc' = "done"
  /\ op' = name
  /\ arg' = a
  /\ ret' = r
  /\ cvcalls' = r.calls
  /\ ResetTile

DrawBox ==
  /\ Ready
  /\ \E ndim \in {2, 3}, a \in BoxCalls, color \in Colors,
        fillcolor \in {NoColor, StrColor} :
       Finish("draw_box",
              [ndim |-> ndim, box |-> a, color |-> color, fillcolor |-> fillcolor],
              draw_box(ndim, a, color, fillcolor, 1))

\* ----------------------------------------------------------- draw_text
\* the guard with `or` for `and`: not isinstance(color, int) or ndim == 2
draw_text_or(ndim, pos, text, color) ==
  IF color.kind # "int" \/ ndim = 2 THEN Raise("TypeError", GreyMsg, <<>>)
  ELSE
    LET color2 == IF color.kind = "str"
                  THEN [kind |-> "seq", val |-> color_bgr(color.val)]
                  ELSE color
    IN Ok(<<>>, << [fn |-> "putText", text |-> text, org |-> pos,
                    color |-> color2] >>)

\* draw_text(image, pos, text, color): one putText call
draw_text(ndim, pos, text, color) ==
  IF color.kind # "int" /\ ndim = 2 THEN Raise("TypeError", GreyMsg, <<>>)
  ELSE
    LET color2 == IF color.kind = "str"
                  THEN [kind |-> "seq", val |-> color_bgr(color.val)]
                  ELSE color
    IN Ok(<<>>, << [fn |-> "putText", text |-> text, org |-> pos,
                    color |-> color2] >>)

DrawText ==
  /\ Ready
  /\ \E ndim \in {2, 3}, pos \in Pt, text \in {"a", "label"}, color \in Colors :
       Finish("draw_text",
              [ndim |-> ndim, pos |-> pos, text |-> text, color |-> color],
              draw_text(ndim, pos, text, color))

\* ---------------------------------------------------------- draw_point
\* the label texts: a sequence of literal pieces, "{}" marking the
\* replacement field; <<>> is None
NoText == <<>>
Texts == {NoText, <<"pt">>, <<"p", "{}">>}

RECURSIVE Format(_, _)
\* text.format(i): every replacement field becomes str(i)
Format(text, i) ==
  IF text = <<>> THEN ""
  ELSE (IF Head(text) = "{}" THEN ToString(i) ELSE Head(text))
       \o Format(Tail(text), i)

\* the coordinates the points are drawn from
PointXY == (0..1) \X (0..1)

RECURSIVE SeqsUpTo(_, _)
\* the sequences over S of length at most n
SeqsUpTo(S, n) ==
  IF n = 0 THEN {<<>>}
  ELSE LET shorter == SeqsUpTo(S, n - 1)
       IN shorter \cup {Append(s, x) : s \in {t \in shorter : Len(t) = n - 1}, x \in S}

\* the documented forms of pos, and a tuple of pairs
PosForms ==
  {[form |-> f, data |-> p] : f \in {"pair_tuple", "pair_list", "ndarray_2"},
                              p \in PointXY}
  \cup {[form |-> f, data |-> ps] : f \in {"list_of_pairs", "tuple_of_pairs"},
                                    ps \in SeqsUpTo(PointXY, MaxPts)}
  \cup {[form |-> "ndarray_2xn",
         data |-> <<[i \in 1..Len(ps) |-> ps[i][1]], [i \in 1..Len(ps) |-> ps[i][2]]>>] :
           ps \in SeqsUpTo(PointXY, MaxPts)}

\* base.islistof(pos, (tuple, list)): a list all of whose items are tuples
\* or lists
islistof(pos) == pos.form = "list_of_pairs"

Min(a, b) == IF a < b THEN a ELSE b

\* list(zip(x, y))
Zip(x, y) == [i \in 1..Min(Len(x), Len(y)) |-> <<x[i], y[i]>>]

\* the branches of draw_point that bind x and y: the two sequences, or the
\* exception the branch ends in
draw_point_xy(pos) ==
  IF pos.form \in {"ndarray_2xn", "ndarray_2"} THEN
    \* isinstance(pos, np.ndarray) and pos.shape[0] == 2
    IF pos.form = "ndarray_2xn"
    THEN [ok |-> TRUE, x |-> pos.data[1], y |-> pos.data[2], exc |-> "", msg |-> ""]
    ELSE [ok |-> FALSE, x |-> <<>>, y |-> <<>>, exc |-> "IndexError",
          msg |-> "too many indices for array"]
  ELSE IF islistof(pos) THEN
    [ok |-> TRUE, x |-> [i \in 1..Len(pos.data) |-> pos.data[i][1]],
     y |-> [i \in 1..Len(pos.data) |-> pos.data[i][2]], exc |-> "", msg |-> ""]
  ELSE IF pos.form = "tuple_of_pairs" THEN
    \* x = pos[0]; y = pos[1], each a pair
    IF Len(pos.data) < 2
    THEN [ok |-> FALSE, x |-> <<>>, y |-> <<>>, exc |-> "IndexError",
          msg |-> "tuple index out of range"]
    ELSE [ok |-> TRUE, x |-> pos.data[1], y |-> pos.data[2], exc |-> "", msg |-> ""]
  ELSE
    \* x = pos[0]; y = pos[1], two numbers: zip(x, y) cannot iterate them
    [ok |-> FALSE, x |-> <<>>, y |-> <<>>, exc |-> "TypeError",
     msg |-> "'int' object is not iterable"]

\* draw_point(image, pos, marker, text, color): one putText call per point
draw_point(ndim, pos, marker, text, color) ==
  IF color.kind # "int" /\ ndim = 2 THEN Raise("TypeError", GreyMsg, <<>>)
  ELSE
    LET xy == draw_point_xy(pos)
        color2 == IF color.kind = "str"
                  THEN [kind |-> "seq", val |-> color_bgr(color.val)]
                  ELSE color
    IN IF ~xy.ok THEN Raise(xy.exc, xy.msg, <<>>)
       ELSE
         LET pts == Zip(xy.x, xy.y)
         IN Ok(<<>>,
               [k \in 1..Len(pts) |->
                  [fn |-> "putText",
                   text |-> IF text # NoText
                            THEN marker \o " " \o Format(text, k - 1)
                            ELSE marker,
                   org |-> pts[k], color |-> color2]])

DrawPoint ==
  /\ Ready
  /\ \E ndim \in {2, 3}, pos \in PosForms, text \in Texts, color \in Colors :
       Finish("draw_point",
              [ndim |-> ndim, pos |-> pos, marker |-> "+", text |-> text,
               color |-> color],
              draw_point(ndim, pos, "+", text, color))

\* ------------------------------------------------------- draw_labelbox
\* the names bound in the body of draw_labelbox: its parameters
LabelboxLocals ==
  {"image", "text", "textcolor", "font", "fontsize", "fontthickness", "kwargs"}

\* the names bound at the top level of graphics.py
GraphicsGlobals ==
  {"cv", "base", "ANSITable", "Column", "color_bgr", "plt", "np", "draw_box",
   "plot_labelbox", "draw_labelbox", "draw_text", "draw_point"}

\* draw_labelbox(image, text, textcolor, **kw) where cv.getTextSize reports
\* the text to be twh = <<width, height>> pixels; kw holds the box arguments
\* and, when kw.hascolor, the keyword color
draw_labelbox(ndim, text, textcolor, twh, kw) ==
  IF "color" \notin (LabelboxLocals \cup GraphicsGlobals) THEN
    Raise("NameError", "name 'color' is not defined", <<>>)
  ELSE IF kw.color.kind # "int" /\ ndim = 2 THEN Raise("TypeError", GreyMsg, <<>>)
  ELSE
    LET r1 == draw_box(ndim, kw.box, IF kw.hascolor THEN kw.color ELSE NoColor,
                       NoColor, 1)
    IN IF r1.status = "raise" THEN r1
       ELSE
         LET bl == r1.value[1]
             h == RoundHalfEven(twh[2], 2)
             h2 == RoundHalfEven(twh[2], 4)
         IN IF ~kw.hascolor THEN Raise("KeyError", "'color'", r1.calls)
            ELSE
              LET r2 == draw_box(ndim,
                                 BoxArg({"tl", "wh"}, <<NoPt, NoPt>>, NoPt, bl, NoPt,
                                        NoPt, <<twh[1] + h, twh[2] + h>>, NoPt),
                                 NoColor, kw.color, 1)
              IN IF r2.status = "raise"
                 THEN Raise(r2.exc, r2.msg, r1.calls \o r2.calls)
                 ELSE
                   LET r3 == draw_text(ndim, <<bl[1] + h2, bl[2] - h2>>, text,
                                       textcolor)
                   IN IF r3.status = "raise"
                      THEN Raise(r3.exc, r3.msg, r1.calls \o r2.calls \o r3.calls)
                      ELSE Ok(<<>>, r1.calls \o r2.calls \o r3.calls)

\* the keyword arguments handed to draw_labelbox
LabelKwargs ==
  {[box |-> b, hascolor |-> hc, color |-> col] :
     b \in {x \in BoxCalls : x.given \in {{"centre", "wh"}, {"bl", "wh"}}},
     hc \in {TRUE}, col \in {StrColor, SeqColor}}
  \cup {[box |-> b, hascolor |-> FALSE, color |-> NoColor] :
          b \in {x \in BoxCalls : x.given = {"bl", "tr"}}}

DrawLabelbox ==
  /\ Ready
  /\ \E ndim \in {2, 3}, twh \in {<<4, 2>>, <<5, 3>>}, kw \in LabelKwargs :
       Finish("draw_labelbox",
              [ndim |-> ndim, text |-> "box", textcolor |-> [kind |-> "str", val |-> <<"white">>],
               twh |-> twh, kw |-> kw],
              draw_labelbox(ndim, "box", [kind |-> "str", val |-> <<"white">>], twh, kw))

\* ---------------------------------------------------------------- Tile
\* tile shapes (rows, columns[, planes]) and pixel types
TileShapes == {<<1, 2>>, <<2, 1>>, <<2, 1, 3>>}
Dtypes == {"uint8", "float32"}

\* the lists of tiles handed to Tile: tile k of the list carries id k
TileLists ==
  UNION { { [k \in 1..n |-> [id |-> k - 1, shape |-> ss[k], dtype |-> dd[k]]] :
              ss \in [1..n -> TileShapes], dd \in [1..n -> Dtypes] } :
          n \in 1..MaxTiles }

\* the two checks of the loop body in the other order: dtype before shape
Tile_check_dtype_first(ts) ==
  LET shape == ts[1].shape
      bad == {k \in 2..Len(ts) : ts[k].shape # shape \/ ts[k].dtype # ts[1].dtype}
  IN IF bad = {} THEN ""
     ELSE LET k == CHOOSE i \in bad : \A j \in bad : i <= j
          IN IF ts[k].dtype # ts[1].dtype THEN "all tiles must have same dtype"
             ELSE "all tiles must be same size"

\* the validation loop over tiles[1:]: the message of the first check that
\* fails, "" when every tile passes
Tile_check(ts) ==
  LET shape == ts[1].shape
      bad == {k \in 2..Len(ts) : ts[k].shape # shape \/ ts[k].dtype # ts[1].dtype}
  IN IF bad = {} THEN ""
     ELSE LET k == CHOOSE i \in bad : \A j \in bad : i <= j
          IN IF ts[k].shape # shape THEN "all tiles must be same size"
             ELSE "all tiles must have same dtype"

\* int(np.ceil(n / columns))
Tile_nrows(n, columns) == (n + columns - 1) \div columns

\* first argument of cls.Constant: the canvas width
Tile_canvas_width(shape, columns, sep) == columns * shape[2] + (columns + 1) * sep

\* second argument of cls.Constant: the canvas height
Tile_canvas_height(shape, nrows, sep) == nrows * shape[1] + (nrows + 1) * sep

\* the step of a row taken for the step of a column: u += shape[0] + sep
Tile_next_u_rows(uu, shape, sep) == uu + shape[1] + sep

\* u += shape[1] + sep
Tile_next_u(uu, shape, sep) == uu + shape[2] + sep

\* v += shape[0] + sep
Tile_next_v(vv, shape, sep) == vv + shape[1] + sep

\* the local `shape`, bound to tiles[0].shape on entry
TileShape == arg.tiles[1].shape

Running == [status |-> "running", exc |-> "", msg |-> "", value |-> <<>>, calls |-> <<>>]

\* Tile(tiles, columns, sep): validation, then the canvas
TileCall ==
  /\ Ready
  /\ \E ts \in TileLists, columns \in 1..MaxCols, sep \in 0..MaxSep :
       LET err == Tile_check(ts)
           shape == ts[1].shape
           nrows == Tile_nrows(Len(ts), columns)
       IN /\ op' = "Tile"
          /\ arg' = [tiles |-> ts, columns |-> columns, sep |-> sep]
          /\ tiles' = ts
          /\ cvcalls' = <<>>
          /\ u' = 0
          /\ c' = 0
          /\ IF err # ""
             THEN /\ pc' = "done"
                  /\ ret' = Raise("ValueError", err, <<>>)
                  /\ canvas' = NoCanvas
                  /\ v' = 0
             ELSE /\ pc' = "tile_while"
                  /\ ret' = Running
                  /\ canvas' = [made |-> TRUE,
                                width |-> Tile_canvas_width(shape, columns, sep),
                                height |-> Tile_canvas_height(shape, nrows, sep),
                                dtype |-> ts[1].dtype,
                                iscolor |-> Len(shape) = 3,
                                pastes |-> <<>>]
                  /\ v' = sep

\* while len(tiles) > 0: u = sep, and the for loop starts
TileRow ==
  /\ pc = "tile_while"
  /\ Len(tiles) > 0
  /\ pc' = "tile_for"
  /\ u' = arg.sep
  /\ c' = 0
  /\ UNCHANGED <<op, arg, ret, cvcalls, tiles, canvas, v>>

\* one pass of the for loop: pop the first tile and paste it at (u, v)
TilePaste ==
  /\ pc = "tile_for"
  /\ c < arg.columns
  /\ Len(tiles) > 0
  /\ tiles' = Tail(tiles)
  /\ canvas' = [canvas EXCEPT !.pastes =
                  Append(@, [id |-> Head(tiles).id, u |-> u, v |-> v,
                             w |-> Head(tiles).shape[2], h |-> Head(tiles).shape[1]])]
  /\ u' = Tile_next_u(u, TileShape, arg.sep)
  /\ c' = c + 1
  /\ UNCHANGED <<pc, op, arg, ret, cvcalls, v>>

\* the for loop ends (range exhausted, or IndexError from pop and break)
TileRowEnd ==
  /\ pc = "tile_for"
  /\ (c = arg.columns \/ Len(tiles) = 0)
  /\ v' = Tile_next_v(v, TileShape, arg.sep)
  /\ pc' = "tile_while"
  /\ UNCHANGED <<op, arg, ret, cvcalls, tiles, canvas, u, c>>

\* the while loop ends: return canvas
TileReturn ==
  /\ pc = "tile_while"
  /\ Len(tiles) = 0
  /\ pc' = "done"
  /\ ret' = Ok(canvas, <<>>)
  /\ UNCHANGED <<op, arg, cvcalls, tiles, canvas, u, v, c>>

\* --------------------------------------------------------------- scale
\* images: width, height and whether there is a colour plane axis
Images ==
  {[width |-> w, height |-> h, iscolor |-> col] :
     w \in 1..MaxDim, h \in 1..MaxDim, col \in BOOLEAN}

RECURSIVE GCD(_, _)
GCD(a, b) == IF b = 0 THEN a ELSE GCD(b, a % b)

RECURSIVE IsPow2(_)
IsPow2(d) == d = 1 \/ (d % 2 = 0 /\ IsPow2(d \div 2))

\* the sizes cv.resize may give a side of n pixels scaled by fx = num/den:
\* n * fx rounded to the nearest integer, halves to the even one.  When
\* num/den is no binary fraction the double fx is inexact, and a product
\* that is mathematically a half may round either way
ResizeDims(n, num, den) ==
  LET a == n * num
      q == a \div den
      tie == 2 * (a % den) = den
  IN IF tie /\ ~IsPow2(den \div GCD(num, den)) THEN {q, q + 1}
     ELSE {RoundHalfEven(a, den)}

NoInterp == [kind |-> "none", val |-> ""]
Interpolations ==
  {NoInterp, [kind |-> "str", val |-> "linear"], [kind |-> "str", val |-> "area"],
   [kind |-> "str", val |-> "nearest"], [kind |-> "other", val |-> ""]}

ScaleRaise(exc, msg) ==
  [status |-> "raise", exc |-> exc, msg |-> msg, value |-> <<>>, calls |-> <<>>]

\* the outcomes of self.scale(sfactor, outsize, sigma, interpolation)
scale(im, sfactor, outsize, sigma, interpolation) ==
  IF ~sfactor.scalar THEN {ScaleRaise("TypeError", "factor is not a scalar")}
  ELSE IF interpolation.kind = "str"
          /\ interpolation.val \notin {"cubic", "linear", "area"} THEN
    {ScaleRaise("ValueError", "bad interpolation string")}
  ELSE IF interpolation.kind = "other" THEN
    {ScaleRaise("TypeError", "bad interpolation value")}
  ELSE
    { IF w = 0 \/ h = 0
      THEN ScaleRaise("cv.error", "resize: dsize is empty")
      ELSE Ok([width |-> w, height |-> h, iscolor |-> im.iscolor], <<>>) :
        w \in ResizeDims(im.width, sfactor.num, sfactor.den),
        h \in ResizeDims(im.height, sfactor.num, sfactor.den) }

Factors ==
  {[scalar |-> TRUE, num |-> f[1], den |-> f[2]] :
     f \in {<<1, 3>>, <<1, 2>>, <<1, 1>>, <<3, 2>>, <<2, 1>>}}
  \cup {[scalar |-> FALSE, num |-> 1, den |-> 1]}

\* outsize: None, or (W, H)
Outsizes ==
  {[given |-> FALSE, w |-> 0, h |-> 0]}
  \cup {[given |-> TRUE, w |-> w, h |-> h] : w \in 1..MaxDim, h \in 1..MaxDim}

Scale ==
  /\ Ready
  /\ \E im \in Images, sfactor \in Factors, outsize \in Outsizes,
        sigma \in {0, 1}, interpolation \in Interpolations :
       \E r \in scale(im, sfactor, outsize, sigma, interpolation) :
         Finish("scale",
                [im |-> im, sfactor |-> sfactor, outsize |-> outsize,
                 sigma |-> sigma, interpolation |-> interpolation],
                r)

\* ------------------------------------------------------------ samesize
Max(a, b) == IF a > b THEN a ELSE b

\* the bounds of the Python slice [start:stop] of an axis of n items
PySlice(n, start, stop) ==
  LET norm(i) == IF i < 0 THEN Max(0, i + n) ELSE Min(i, n)
      lo == norm(start)
      hi == norm(stop)
  IN [lo |-> lo, len |-> Max(0, hi - lo)]

\* bias as a ratio num/den; the values callers pass
Biases == {[num |-> k, den |-> 4] : k \in (0 - 1)..5}

\* d1 = max(1, int(np.floor(d * bias)))
samesize_d1(d, bias) == Max(1, (d * bias.num) \div bias.den)

\* sc.max(): the larger of the height ratio and the width ratio
samesize_sc(im, im2) ==
  IF im2.height * im.width >= im2.width * im.height
  THEN [scalar |-> TRUE, num |-> im2.height, den |-> im.height]
  ELSE [scalar |-> TRUE, num |-> im2.width, den |-> im.width]

SamesizeRaise(exc, msg, o) ==
  [status |-> "raise", exc |-> exc, msg |-> msg, value |-> <<>>, calls |-> <<>>,
   scaled |-> o]

\* the trimming of the scaled image o (an outcome of self.scale) to im2
samesize_trim(o, im2, bias) ==
  IF o.height > im2.width THEN
    \* o = o.image[d1:-d2, :, :], an ndarray; then o.width is read
    IF ~o.iscolor
    THEN SamesizeRaise("IndexError", "too many indices for array", o)
    ELSE SamesizeRaise("AttributeError",
                       "'numpy.ndarray' object has no attribute 'width'", o)
  ELSE IF o.width > im2.width THEN
    LET d == o.width - im2.width
        d1 == samesize_d1(d, bias)
        d2 == d - d1
        cols == PySlice(o.width, d1, 0 - d2)
    IN IF ~o.iscolor
       THEN SamesizeRaise("IndexError", "too many indices for array", o)
       ELSE [status |-> "ok", exc |-> "", msg |-> "",
             value |-> [width |-> cols.len, height |-> o.height,
                        iscolor |-> TRUE, x0 |-> cols.lo, y0 |-> 0],
             calls |-> <<>>, scaled |-> o]
  ELSE
    SamesizeRaise("UnboundLocalError",
                  "local variable 'out' referenced before assignment", o)

\* the outcomes of self.samesize(im2, bias)
samesize(im, im2, bias) ==
  IF bias.num < 0 \/ bias.num > bias.den THEN
    {SamesizeRaise("ValueError", "bias must be in range [0, 1]", im)}
  ELSE
    { IF r.status = "raise" THEN SamesizeRaise(r.exc, r.msg, im)
      ELSE samesize_trim(r.value, im2, bias) :
        r \in scale(im, samesize_sc(im, im2), [given |-> FALSE, w |-> 0, h |-> 0],
                    0, NoInterp) }

Samesize ==
  /\ Ready
  /\ \E im \in Images, im2 \in Images, bias \in Biases :
       \E r \in samesize(im, im2, bias) :
         Finish("samesize", [im |-> im, im2 |-> im2, bias |-> bias], r)

\* ----------------------------------------------------------------- roi
\* the names bound at the top level of ImageReshape.py
ReshapeGlobals == {"np", "sp", "cv", "smb", "meshgrid", "idisp", "ImageReshapeMixin"}

RoiCoord == 0..MaxC

\* reg: None, a pair (U, V), a 2x2 array [left, right; top, bot], or a
\* 4-vector (left, right, top, bot)
Regs ==
  {[form |-> "none", data |-> <<>>]}
  \cup {[form |-> "pair", data |-> <<p, q>>] : p \in RoiCoord, q \in RoiCoord}
  \cup {[form |-> f, data |-> <<l, r, t, b>>] :
          f \in {"array2x2", "vec4"}, l \in RoiCoord, r \in RoiCoord,
          t \in RoiCoord, b \in RoiCoord}

\* wh: None, a scalar, or a pair (W, H)
RoiWH ==
  {[form |-> "none", data |-> <<>>]}
  \cup {[form |-> "scalar", data |-> <<s>>] : s \in 1..MaxWH}
  \cup {[form |-> "pair", data |-> <<w, h>>] : w \in 1..MaxWH, h \in 1..MaxWH}

\* self.roi(reg, wh)
roi(im, reg, wh) ==
  IF reg.form # "none" /\ wh.form # "none" THEN
    IF "argcheck" \notin ReshapeGlobals THEN
      Raise("NameError", "name 'argcheck' is not defined", <<>>)
    ELSE IF Len(reg.data) # 4 THEN
      Raise("ValueError", "not enough values to unpack (expected 4)", <<>>)
    ELSE
      Raise("UnboundLocalError", "local variable 'bot' referenced before assignment",
            <<>>)
  ELSE IF reg.form # "none" THEN
    IF reg.form = "pair" THEN
      Raise("TypeError", "tuple indices must be integers or slices, not tuple", <<>>)
    ELSE
      LET left == reg.data[1]
          right == reg.data[2]
          top == reg.data[3]
          bot == reg.data[4]
          rows == PySlice(im.height, top, bot)
          cols == PySlice(im.width, left, right)
      IN Ok([width |-> cols.len, height |-> rows.len, iscolor |-> im.iscolor,
             x0 |-> cols.lo, y0 |-> rows.lo], <<>>)
  ELSE
    Raise("ValueError", "reg cannot be None", <<>>)

Roi ==
  /\ Ready
  /\ \E im \in {x \in Images : x.iscolor}, reg \in Regs, wh \in RoiWH :
       Finish("roi", [im |-> im, reg |-> reg, wh |-> wh], roi(im, reg, wh))

Init ==
  /\ pc = "ready"
  /\ op = "none"
  /\ arg = <<>>
  /\ ret = Ok(<<>>, <<>>)
  /\ cvcalls = <<>>
  /\ tiles = <<>>
  /\ canvas = NoCanvas
  /\ u = 0
  /\ v = 0
  /\ c = 0

Next ==
  \/ DrawBox
  \/ DrawText
  \/ DrawPoint
  \/ DrawLabelbox
  \/ TileCall
  \/ TileRow
  \/ TilePaste
  \/ TileRowEnd
  \/ TileReturn
  \/ Scale
  \/ Samesize
  \/ Roi

Spec == Init /\ [][Next]_vars
\* ================================================================ claims
Done(name) == pc = "done" /\ op = name

InUnit(bias) == bias.num >= 0 /\ bias.num <= bias.den

\* C1: for every source image, every target im2 of positive size and every
\* bias in [0, 1], samesize returns normally an image as wide and as high
\* as im2.
C1_SamesizeSameDims ==
  (Done("samesize") /\ InUnit(arg.bias)) =>
    /\ ret.status = "ok"
    /\ ret.value.width = arg.im2.width
    /\ ret.value.height = arg.im2.height

\* the colour draw_box hands to the rectangle call
EffectiveColor(a) == IF a.fillcolor.kind # "none" THEN a.fillcolor ELSE a.color

NoBBox == <<NoPt, NoPt>>

EvenWH == {w \in 0..MaxWH : w % 2 = 0}

\* the documented ways of specifying the rectangle with bottom-left corner
\* (xmin, ymin), width w and height h
BoxForms(xmin, ymin, w, h) ==
  { BoxArg({"bbox"}, <<<<xmin, xmin + w>>, <<ymin, ymin + h>>>>,
           NoPt, NoPt, NoPt, NoPt, NoPt, NoPt),
    BoxArg({"bl", "wh"}, NoBBox, <<xmin, ymin>>, NoPt, NoPt, NoPt, <<w, h>>, NoPt),
    BoxArg({"bl", "tr"}, NoBBox, <<xmin, ymin>>, NoPt, NoPt,
           <<xmin + w, ymin + h>>, NoPt, NoPt),
    BoxArg({"tr", "wh"}, NoBBox, NoPt, NoPt, NoPt, <<xmin + w, ymin + h>>,
           <<w, h>>, NoPt),
    BoxArg({"tl", "wh"}, NoBBox, NoPt, <<xmin, ymin + h>>, NoPt, NoPt, <<w, h>>,
           NoPt),
    BoxArg({"centre", "wh"}, NoBBox, NoPt, NoPt, NoPt, NoPt, <<w, h>>,
           <<xmin + w \div 2, ymin + h \div 2>>) }

C3_CentreBoxSize ==
  (Done("draw_box") /\ arg.box.given = {"centre", "wh"} /\ ret.status = "ok") =>
    /\ ret.value[2][1] - ret.value[1][1] = arg.box.wh[1]
    /\ ret.value[2][2] - ret.value[1][2] = arg.box.wh[2]

\* tiles of one shape and one dtype
Uniform(ts) ==
  \A k \in 1..Len(ts) : ts[k].shape = ts[1].shape /\ ts[k].dtype = ts[1].dtype

\* two pasted footprints share no pixel
Disjoint(p, q) ==
  \/ p.u + p.w <= q.u
  \/ q.u + q.w <= p.u
  \/ p.v + p.h <= q.v
  \/ q.v + q.h <= p.v

\* C4: for n >= 1 equally sized tiles, columns >= 1 and sep >= 0 the canvas
\* is columns*w + (columns+1)*sep wide and nrows*h + (nrows+1)*sep high with
\* nrows = ceil(n/columns); tile k is pasted exactly once, at
\* (sep + (k mod columns)*(w+sep), sep + (k div columns)*(h+sep)); every
\* footprint lies inside the canvas and no two overlap.
C4_TileGrid ==
  (Done("Tile") /\ Uniform(arg.tiles)) =>
    LET n == Len(arg.tiles)
        w == arg.tiles[1].shape[2]
        h == arg.tiles[1].shape[1]
        cols == arg.columns
        sep == arg.sep
        nrows == IF n % cols = 0 THEN n \div cols ELSE n \div cols + 1
        ps == canvas.pastes
    IN /\ ret.status = "ok"
       /\ ret.value = canvas
       /\ canvas.made
       /\ canvas.width = cols * w + (cols + 1) * sep
       /\ canvas.height = nrows * h + (nrows + 1) * sep
       /\ Len(ps) = n
       /\ \A k \in 0..(n - 1) :
            /\ ps[k + 1].id = k
            /\ ps[k + 1].u = sep + (k % cols) * (w + sep)
            /\ ps[k + 1].v = sep + (k \div cols) * (h + sep)
            /\ ps[k + 1].u >= 0
            /\ ps[k + 1].v >= 0
            /\ ps[k + 1].u + w <= canvas.width
            /\ ps[k + 1].v + h <= canvas.height
       /\ \A i \in 1..n, j \in 1..n : i # j => Disjoint(ps[i], ps[j])

\* three tiles wider than high on two columns: a full row and a partial one
C4_Witness ==
  /\ Done("Tile")
  /\ ret.status = "ok"
  /\ Len(arg.tiles) = 3
  /\ arg.tiles[1].shape = <<1, 2>>
  /\ arg.columns = 2
  /\ arg.sep = 1
  /\ Len(canvas.pastes) = 3
  /\ canvas.pastes[3].u = 1
  /\ canvas.pastes[3].v = 3

\* C5: roi(reg, wh) with both arguments returns normally the sub-image
\* centred at reg = (U, V) of size wh: W = H = wh for a scalar, (W, H) = wh
\* otherwise.
C5_RoiCentred ==
  (Done("roi") /\ arg.reg.form = "pair" /\ arg.wh.form # "none") =>
    LET W == arg.wh.data[1]
        H == IF arg.wh.form = "scalar" THEN arg.wh.data[1] ELSE arg.wh.data[2]
    IN /\ ret.status = "ok"
       /\ ret.value.width = W
       /\ ret.value.height = H

\* C6: scale(sfactor, outsize) returns an image of the size outsize = (W, H),
\* for every scalar sfactor > 0 and every positive outsize.
C6_ScaleOutsize ==
  (Done("scale") /\ arg.sfactor.scalar /\ arg.outsize.given
   /\ arg.interpolation.kind = "none") =>
    /\ ret.status = "ok"
    /\ ret.value.width = arg.outsize.w
    /\ ret.value.height = arg.outsize.h

\* the text drawn at point i
MarkerText(i) ==
  IF arg.text = NoText THEN arg.marker
  ELSE arg.marker \o " " \o Format(arg.text, i)

\* C7: on a colour image draw_point accepts each documented form of pos: a
\* single pair (x, y) draws exactly one marker at (x, y); a 2xn array or a
\* list of n pairs draws n markers, one text call per point in index order,
\* with the marker string, followed by ' ' and text.format(i) when text is
\* given.
C7_DrawPointForms ==
  (Done("draw_point") /\ arg.ndim = 3) =>
    /\ arg.pos.form \in {"pair_tuple", "pair_list"} =>
         /\ ret.status = "ok"
         /\ Len(cvcalls) = 1
         /\ cvcalls[1].fn = "putText"
         /\ cvcalls[1].org = arg.pos.data
         /\ cvcalls[1].text = MarkerText(0)
    /\ arg.pos.form = "list_of_pairs" =>
         /\ ret.status = "ok"
         /\ Len(cvcalls) = Len(arg.pos.data)
         /\ \A i \in 1..Len(cvcalls) :
              /\ cvcalls[i].fn = "putText"
              /\ cvcalls[i].org = arg.pos.data[i]
              /\ cvcalls[i].text = MarkerText(i - 1)
    /\ arg.pos.form = "ndarray_2xn" =>
         /\ ret.status = "ok"
         /\ Len(cvcalls) = Len(arg.pos.data[1])
         /\ \A i \in 1..Len(cvcalls) :
              /\ cvcalls[i].fn = "putText"
              /\ cvcalls[i].org = <<arg.pos.data[1][i], arg.pos.data[2][i]>>
              /\ cvcalls[i].text = MarkerText(i - 1)

\* C8: draw_labelbox on a colour image, with a text, a keyword color and
\* valid box arguments, completes without raising and draws in this order:
\* the box outline (the corners draw_box returns), then a filled background
\* whose top-left corner is the box's returned bottom-left corner, then the
\* text.
C8_LabelboxOrder ==
  (Done("draw_labelbox") /\ arg.ndim = 3 /\ arg.kw.hascolor) =>
    LET box == draw_box(3, arg.kw.box, arg.kw.color, NoColor, 1)
    IN /\ ret.status = "ok"
       /\ Len(cvcalls) = 3
       /\ cvcalls[1].fn = "rectangle"
       /\ <<cvcalls[1].pt1, cvcalls[1].pt2>> = box.value
       /\ cvcalls[2].fn = "rectangle"
       /\ cvcalls[2].thickness = 0 - 1
       /\ <<cvcalls[2].pt1[1], cvcalls[2].pt2[2]>> = box.value[1]
       /\ cvcalls[3].fn = "putText"

\* C9: when the scaled image exceeds the target by d > 0 columns (rows),
\* samesize returns the target's number of consecutive columns (rows) of
\* it, starting at an offset d1 with 0 <= d1 <= d; bias = 0.5 crops
\* symmetrically (before and after differ by at most 1) and d1 does not
\* decrease when bias grows.  Stated for colour sources.
C9_SamesizeCrop ==
  (Done("samesize") /\ InUnit(arg.bias) /\ arg.im.iscolor) =>
    /\ ret.scaled.width > arg.im2.width =>
         LET d == ret.scaled.width - arg.im2.width
         IN /\ ret.status = "ok"
            /\ ret.value.width = arg.im2.width
            /\ 0 <= ret.value.x0 /\ ret.value.x0 <= d
            /\ arg.bias.num * 2 = arg.bias.den =>
                 /\ 2 * ret.value.x0 - d <= 1
                 /\ d - 2 * ret.value.x0 <= 1
            /\ \A b \in Biases :
                 (InUnit(b) /\ b.num <= arg.bias.num) =>
                   samesize_d1(d, b) <= ret.value.x0
    /\ ret.scaled.height > arg.im2.height =>
         LET d == ret.scaled.height - arg.im2.height
         IN /\ ret.status = "ok"
            /\ ret.value.height = arg.im2.height
            /\ 0 <= ret.value.y0 /\ ret.value.y0 <= d

\* the tiles after the first that differ from it
DiffShape(ts) == {k \in 2..Len(ts) : ts[k].shape # ts[1].shape}
DiffDtype(ts) == {k \in 2..Len(ts) : ts[k].dtype # ts[1].dtype}

SetMin(S) == CHOOSE i \in S : \A j \in S : i <= j

NothingDone ==
  /\ pc = "done"
  /\ ~canvas.made
  /\ canvas.pastes = <<>>
  /\ tiles = arg.tiles

\* C10 as stated: a tile of another shape makes Tile raise ValueError 'all
\* tiles must be same size', a tile of another dtype makes it raise
\* ValueError 'all tiles must have same dtype'; no canvas is created, no tile
\* is pasted and the caller's list is unchanged.
C10_Original ==
  op = "Tile" =>
    /\ DiffShape(arg.tiles) # {} =>
         /\ ret.status = "raise" /\ ret.exc = "ValueError"
         /\ ret.msg = "all tiles must be same size"
         /\ NothingDone
    /\ DiffDtype(arg.tiles) # {} =>
         /\ ret.status = "raise" /\ ret.exc = "ValueError"
         /\ ret.msg = "all tiles must have same dtype"
         /\ NothingDone

\* C10 amended: when some tile after the first differs from it in shape or
\* dtype, Tile raises ValueError before doing any work, with the message of
\* the first check that fails in list order, the shape of a tile being
\* checked before its dtype; no canvas is created, no tile is pasted and the
\* caller's list is unchanged.
C10_TileRejects ==
  (op = "Tile" /\ DiffShape(arg.tiles) \cup DiffDtype(arg.tiles) # {}) =>
    LET k == SetMin(DiffShape(arg.tiles) \cup DiffDtype(arg.tiles))
    IN /\ ret.status = "raise"
       /\ ret.exc = "ValueError"
       /\ ret.msg = IF k \in DiffShape(arg.tiles)
                    THEN "all tiles must be same size"
                    ELSE "all tiles must have same dtype"
       /\ NothingDone

\* the second tile differs in both shape and dtype and was rejected for its
\* shape
C10_Witness ==
  /\ Done("Tile")
  /\ 2 \in DiffShape(arg.tiles)
  /\ 2 \in DiffDtype(arg.tiles)
  /\ ret.status = "raise"
  /\ ret.msg = "all tiles must be same size"
  /\ tiles = arg.tiles
\* the TypeError of the greyscale guard has been raised
GreyRaised ==
  ret.status = "raise" /\ ret.exc = "TypeError" /\ ret.msg = GreyMsg

\* C11: draw_box, draw_text and draw_point raise TypeError ("can't draw
\* color into a greyscale image") exactly when the image is 2-dimensional
\* and the color argument is not an int; then no drawing call is made.  With
\* an int color on a 2-dimensional image, or any color on a 3-dimensional
\* image, this TypeError is not raised.
C11_GreyscaleGuard ==
  (pc = "done" /\ op \in {"draw_box", "draw_text", "draw_point"}) =>
    /\ GreyRaised <=> (arg.ndim = 2 /\ arg.color.kind # "int")
    /\ GreyRaised => cvcalls = <<>>
    /\ (arg.ndim = 3 \/ arg.color.kind = "int") => ~GreyRaised

\* draw_text was refused a named colour on a greyscale image and drew nothing
C11_Witness ==
  /\ Done("draw_text")
  /\ arg.ndim = 2
  /\ arg.color = StrColor
  /\ GreyRaised
  /\ cvcalls = <<>>
====
